---- MODULE Spec2Model ----
(***************************************************************************)
(* A model of subway_app.py: the line-code resolver, the arrival-text      *)
(* classifier, the arrival normalizer, the feed fetcher and the Streamlit  *)
(* script (one render pass per script run).                                *)
(*                                                                         *)
(* Text.  A Python str is modelled as a sequence of characters.  Every     *)
(* Hangul syllable is one character, written here by its romanization:     *)
(*   bun 분  cho 초  hu 후  do 도  chak 착  jin 진  ip 입  jeon 전          *)
(*   yeok 역  beon 번  jjae 째  jeop 접  su 수  geul 글  ro 로  beol 벌     *)
(*   hwan 환  jung 중  got 곧  al 알  eops 없  eum 음  ho 호  seon 선       *)
(*   sang 상  haeng 행  ha 하  nae 내  oe 외  gang 강  nam 남  ji 지        *)
(*   chuk 축  sin 신  rim 림  ga 가  yeol 열  cha 차  ni 니  da 다          *)
(* Digits, the space, the parentheses and the Latin letter "a" stand for   *)
(* themselves.                                                             *)
(*                                                                         *)
(* Values.  A JSON value read with dict.get is a record                    *)
(*   [t |-> "absent" | "none" | "str" | "int", s |-> <characters>, n |-> i] *)
(* where "absent" is a missing key and "none" is JSON null.                *)
(***************************************************************************)
EXTENDS Integers, Sequences, FiniteSets, TLC

VARIABLES
    \* the Streamlit script and its session
    pc, api_key, current_station, refresh_key, station_input, clicked,
    auto_refresh, response, data, page, upbound_trains, downbound_trains,
    requests,
    \* one call of get_subway_line_name
    subway_id, line_name,
    \* one call of is_valid_station_text
    text, valid,
    \* one call of parse_train_info
    train_data, info, time_str

appVars == <<pc, api_key, current_station, refresh_key, station_input, clicked,
             auto_refresh, response, data, page, upbound_trains,
             downbound_trains, requests>>
lineVars == <<subway_id, line_name>>
textVars == <<text, valid>>
parseVars == <<train_data, info, time_str>>
vars == <<appVars, lineVars, textVars, parseVars>>

----------------------------------------------------------------------------
(* Bounds *)

MaxTextLen == 3
MaxSeconds == 130
MaxIdLen == 3
MaxTrains == 2
MaxRefresh == 1

----------------------------------------------------------------------------
(* Python values and str operations *)

Absent == [t |-> "absent", s |-> <<>>, n |-> 0]
None == [t |-> "none", s |-> <<>>, n |-> 0]
PyStr(s) == [t |-> "str", s |-> s, n |-> 0]
PyInt(i) == [t |-> "int", s |-> <<>>, n |-> i]

\* dict.get(key, default)
Get(d, key, default) == IF d[key].t = "absent" THEN default ELSE d[key]

\* Python truthiness of a value
Truthy(v) ==
    CASE v.t = "str" -> v.s # <<>>
      [] v.t = "int" -> v.n # 0
      [] OTHER -> FALSE

\* w in s, for two str
Contains(s, w) ==
    \E i \in 1..(Len(s) - Len(w) + 1) : SubSeq(s, i, i + Len(w) - 1) = w

Whitespace == {" "}

RECURSIVE LStrip(_)
LStrip(s) ==
    IF s # <<>> /\ Head(s) \in Whitespace THEN LStrip(Tail(s)) ELSE s

RECURSIVE RStrip(_)
RStrip(s) ==
    IF s # <<>> /\ s[Len(s)] \in Whitespace
    THEN RStrip(SubSeq(s, 1, Len(s) - 1))
    ELSE s

\* str.strip()
Strip(s) == RStrip(LStrip(s))

Digits == <<"0", "1", "2", "3", "4", "5", "6", "7", "8", "9">>
DigitChars == {Digits[i] : i \in 1..10}
DigitValue(c) == (CHOOSE i \in 1..10 : Digits[i] = c) - 1

\* str(n) for an int n >= 0
RECURSIVE NatStr(_)
NatStr(n) ==
    IF n < 10 THEN <<Digits[n + 1]>>
    ELSE NatStr(n \div 10) \o <<Digits[(n % 10) + 1]>>

\* str(n) for any int
IntStr(n) == IF n < 0 THEN <<"-">> \o NatStr(0 - n) ELSE NatStr(n)

\* the value of a non-empty run of decimal digits
RECURSIVE DigitsValue(_)
DigitsValue(s) ==
    IF s = <<>> THEN 0
    ELSE 10 * DigitsValue(SubSeq(s, 1, Len(s) - 1)) + DigitValue(s[Len(s)])

AllDigits(s) == s # <<>> /\ \A i \in 1..Len(s) : s[i] \in DigitChars

\* int(s) for a str: surrounding whitespace is dropped, one sign is allowed,
\* the rest must be decimal digits; anything else raises ValueError.
IntOfStrOk(s) ==
    LET b == Strip(s)
        u == IF b # <<>> /\ Head(b) \in {"+", "-"} THEN Tail(b) ELSE b
    IN  AllDigits(u)

IntOfStr(s) ==
    LET b == Strip(s)
        neg == b # <<>> /\ Head(b) = "-"
        u == IF b # <<>> /\ Head(b) \in {"+", "-"} THEN Tail(b) ELSE b
    IN  IF neg THEN 0 - DigitsValue(u) ELSE DigitsValue(u)

\* the range [가-힣] of the two regular expressions
Hangul ==
    {"bun", "cho", "hu", "do", "chak", "jin", "ip", "jeon", "yeok", "beon",
     "jjae", "jeop", "su", "geul", "ro", "beol", "hwan", "jung", "got", "al",
     "eops", "eum", "ho", "seon", "sang", "haeng", "ha", "nae", "oe", "gang",
     "nam", "ji", "chuk", "sin", "rim", "ga", "yeol", "cha", "ni", "da"}

AllHangul(s) == \A i \in 1..Len(s) : s[i] \in Hangul

\* all str of length 0..n over the characters A
StrUpTo(A, n) == UNION {[1..k -> A] : k \in 0..n}

----------------------------------------------------------------------------
(* get_subway_line_name *)

UNKNOWN == <<"al", " ", "su", " ", "eops", "eum">>
HOSEON == <<"ho", "seon">>

\* subway_line_map, as the set of its (key, value) pairs
subway_line_map ==
    { <<<<"1","0","0","1">>, <<"1","ho","seon">>>>,
      <<<<"1","0","0","2">>, <<"2","ho","seon">>>>,
      <<<<"1","0","0","3">>, <<"3","ho","seon">>>>,
      <<<<"1","0","0","4">>, <<"4","ho","seon">>>>,
      <<<<"1","0","0","5">>, <<"5","ho","seon">>>>,
      <<<<"1","0","0","6">>, <<"6","ho","seon">>>>,
      <<<<"1","0","0","7">>, <<"7","ho","seon">>>>,
      <<<<"1","0","0","8">>, <<"8","ho","seon">>>>,
      <<<<"1","0","0","9">>, <<"9","ho","seon">>>>,
      <<<<"1","0","6","1">>, <<"jung","ang","seon">>>>,
      <<<<"1","0","6","3">>, <<"gyeong","ui","jung","ang","seon">>>>,
      <<<<"1","0","6","5">>, <<"gong","hang","cheol","do">>>>,
      <<<<"1","0","6","7">>, <<"gyeong","chun","seon">>>>,
      <<<<"1","0","7","1">>, <<"su","in","bun","dang","seon">>>>,
      <<<<"1","0","7","5">>, <<"bun","dang","seon">>>>,
      <<<<"1","0","7","7">>, <<"bun","dang","seon">>>>,
      <<<<"1","0","8","1">>, <<"sin","rim","seon">>>>,
      <<<<"1","0","9","2">>, <<"sin","bun","dang","seon">>>>,
      <<<<"1","0","9","3">>, <<"yong","in","gyeong","jeon","cheol">>>>,
      <<<<"1","0","9","4">>, <<"ui","jeong","bu","gyeong","jeon","cheol">>>>,
      <<<<"1","0","9","5">>, <<"u","i","sin","seol","seon">>>>,
      <<<<"1","0","9","6">>, <<"seo","hae","seon">>>>,
      <<<<"1","0","9","7">>, <<"gim","po","gol","deu","ra","in">>>>,
      <<<<"1","0","9","9">>, <<"su","in","seon">>>> }

MapKeys(m) == {e[1] : e \in m}
MapGet(m, k, default) ==
    IF k \in MapKeys(m) THEN (CHOOSE e \in m : e[1] = k)[2] ELSE default

\* str(v), for the values that reach str() here
StrOf(v) ==
    CASE v.t = "str" -> v.s
      [] v.t = "int" -> IntStr(v.n)
      [] OTHER -> <<"N", "o", "n", "e">>

\* a resolver that looks the id up but forgets the fallbacks of line 48
get_subway_line_name_nofallback(id) ==
    MapGet(subway_line_map, IF Truthy(id) THEN StrOf(id) ELSE <<>>, <<>>)

get_subway_line_name(id) ==
    LET subway_id_str == IF Truthy(id) THEN StrOf(id) ELSE <<>>
    IN  MapGet(subway_line_map, subway_id_str,
               IF subway_id_str # <<>> THEN subway_id_str \o HOSEON
               ELSE UNKNOWN)

----------------------------------------------------------------------------
(* is_valid_station_text *)

JEOPSU == <<"jeop", "su">>
GEULROBEOL == <<"geul", "ro", "beol">>
SUIP == <<"su", "ip">>
JEONHWAN == <<"jeon", "hwan">>
DOCHAK == <<"do", "chak">>
JINIP == <<"jin", "ip">>
JEONYEOK == <<"jeon", "yeok">>

\* invalid_words of is_valid_station_text (line 123)
invalid_words_text ==
    {JEOPSU, GEULROBEOL, SUIP, JEONHWAN, GEULROBEOL \o <<" ">> \o SUIP}

valid_keywords ==
    {<<"bun">>, <<"cho">>, <<"hu">>, DOCHAK, JINIP, JEONYEOK, <<"yeok">>,
     <<"beon", "jjae">>}

\* re.match(r'^[가-힣]{2,4}$', s)
MatchStationName(s) == Len(s) \in 2..4 /\ AllHangul(s)

\* a classifier that tries the allowlist and the station-name shape before
\* the denylist
is_valid_station_text_allowfirst(t) ==
    IF t = <<>> THEN FALSE
    ELSE IF \E keyword \in valid_keywords : Contains(t, keyword) THEN TRUE
    ELSE IF MatchStationName(Strip(t)) THEN TRUE
    ELSE FALSE

is_valid_station_text(t) ==
    IF t = <<>> THEN FALSE
    ELSE IF \E word \in invalid_words_text : Contains(t, word) THEN FALSE
    ELSE IF \E keyword \in valid_keywords : Contains(t, keyword) THEN TRUE
    ELSE IF MatchStationName(Strip(t)) THEN TRUE
    ELSE FALSE

----------------------------------------------------------------------------
(* parse_train_info *)

GOT_DOCHAK == <<"got", " ", "do", "chak">>
JINIPJUNG == <<"jin", "ip", "jung">>

\* lines 141-145: barvlDt as an int
barvl_seconds(td) ==
    LET barvl_dt == Get(td, "barvlDt", PyStr(<<"0">>))
    IN  IF ~Truthy(barvl_dt) THEN 0
        ELSE IF barvl_dt.t = "int" THEN barvl_dt.n
        ELSE IF IntOfStrOk(barvl_dt.s) THEN IntOfStr(barvl_dt.s)
        ELSE 0

\* a time string that tests the minutes before the seconds
compute_time_str_minutes_first(secs) ==
    IF secs > 0 THEN
        LET minutes == secs \div 60
            seconds == secs % 60
        IN  IF minutes > 0 THEN NatStr(minutes) \o <<"bun", " ", "hu">>
            ELSE IF seconds > 0 THEN NatStr(seconds) \o <<"cho", " ", "hu">>
            ELSE GOT_DOCHAK
    ELSE DOCHAK

\* lines 148-160
compute_time_str(secs) ==
    IF secs > 0 THEN
        LET minutes == secs \div 60
            seconds == secs % 60
        IN  IF minutes > 0 /\ seconds > 0
            THEN NatStr(minutes) \o <<"bun", " ">> \o NatStr(seconds)
                 \o <<"cho", " ", "hu">>
            ELSE IF minutes > 0 THEN NatStr(minutes) \o <<"bun", " ", "hu">>
            ELSE IF seconds > 0 THEN NatStr(seconds) \o <<"cho", " ", "hu">>
            ELSE GOT_DOCHAK
    ELSE DOCHAK

\* invalid_words of parse_train_info (line 168)
invalid_words == {JEOPSU, GEULROBEOL, SUIP, JEONHWAN}

HasInvalidWord(s) == \E word \in invalid_words : Contains(s, word)

\* lines 163-164 and 169-172: a message field, stripped and scrubbed
scrubbed_msg(td, key) ==
    LET msg == Strip(Get(td, key, PyStr(<<>>)).s)
    IN  IF HasInvalidWord(msg) THEN <<>> ELSE msg

HasTimeUnit(s) ==
    Contains(s, <<"bun">>) \/ Contains(s, <<"cho">>) \/ Contains(s, <<"hu">>)

\* a selection that tests the arrival words before the time units
select_status_time_arrival_first(is_valid_msg2, arvl_msg2, secs, tstr, arvl_cd) ==
    IF is_valid_msg2 /\ (Contains(arvl_msg2, DOCHAK) \/ Contains(arvl_msg2, JINIP))
    THEN <<arvl_msg2, IF secs > 0 THEN tstr ELSE DOCHAK>>
    ELSE IF is_valid_msg2 /\ HasTimeUnit(arvl_msg2)
    THEN <<arvl_msg2, arvl_msg2>>
    ELSE IF is_valid_msg2 /\ Contains(arvl_msg2, JEONYEOK)
    THEN <<arvl_msg2, IF secs > 0 THEN tstr ELSE DOCHAK>>
    ELSE IF secs > 0 THEN <<tstr, tstr>>
    ELSE IF arvl_cd = PyStr(<<"0">>) THEN <<DOCHAK, DOCHAK>>
    ELSE IF arvl_cd = PyStr(<<"1">>) THEN <<JINIPJUNG, JINIPJUNG>>
    ELSE <<DOCHAK, DOCHAK>>

\* a selection whose fallback reads the status code before the seconds
select_status_time_code_first(is_valid_msg2, arvl_msg2, secs, tstr, arvl_cd) ==
    IF is_valid_msg2 /\ HasTimeUnit(arvl_msg2)
    THEN <<arvl_msg2, arvl_msg2>>
    ELSE IF is_valid_msg2 /\ (Contains(arvl_msg2, DOCHAK) \/ Contains(arvl_msg2, JINIP))
    THEN <<arvl_msg2, IF secs > 0 THEN tstr ELSE DOCHAK>>
    ELSE IF is_valid_msg2 /\ Contains(arvl_msg2, JEONYEOK)
    THEN <<arvl_msg2, IF secs > 0 THEN tstr ELSE DOCHAK>>
    ELSE IF arvl_cd = PyStr(<<"0">>) THEN <<DOCHAK, DOCHAK>>
    ELSE IF arvl_cd = PyStr(<<"1">>) THEN <<JINIPJUNG, JINIPJUNG>>
    ELSE IF secs > 0 THEN <<tstr, tstr>>
    ELSE <<DOCHAK, DOCHAK>>

\* lines 178-205: <<status, time_display>>
select_status_time(is_valid_msg2, arvl_msg2, secs, tstr, arvl_cd) ==
    IF is_valid_msg2 /\ HasTimeUnit(arvl_msg2)
    THEN <<arvl_msg2, arvl_msg2>>
    ELSE IF is_valid_msg2 /\ (Contains(arvl_msg2, DOCHAK) \/ Contains(arvl_msg2, JINIP))
    THEN <<arvl_msg2, IF secs > 0 THEN tstr ELSE DOCHAK>>
    ELSE IF is_valid_msg2 /\ Contains(arvl_msg2, JEONYEOK)
    THEN <<arvl_msg2, IF secs > 0 THEN tstr ELSE DOCHAK>>
    ELSE IF secs > 0 THEN <<tstr, tstr>>
    ELSE IF arvl_cd = PyStr(<<"0">>) THEN <<DOCHAK, DOCHAK>>
    ELSE IF arvl_cd = PyStr(<<"1">>) THEN <<JINIPJUNG, JINIPJUNG>>
    ELSE <<DOCHAK, DOCHAK>>

\* re.search(r'\(([가-힣]+)\)', s): a match starts at i and ends at j
ParenMatch(s, i, j) ==
    /\ s[i] = "("
    /\ s[j] = ")"
    /\ j > i + 1
    /\ AllHangul(SubSeq(s, i + 1, j - 1))

ParenMatches(s) ==
    {p \in (1..Len(s)) \X (1..Len(s)) : ParenMatch(s, p[1], p[2])}

\* group(1) of the leftmost match
ParenGroup(s) ==
    LET p == CHOOSE q \in ParenMatches(s) :
                 \A r \in ParenMatches(s) : q[1] <= r[1]
    IN  SubSeq(s, p[1] + 1, p[2] - 1)

\* lines 208-217
current_location(is_valid_msg2, arvl_msg2, arvl_msg3) ==
    IF is_valid_station_text(arvl_msg3) THEN arvl_msg3
    ELSE IF is_valid_msg2
            /\ ~(Contains(arvl_msg2, <<"bun">>) \/ Contains(arvl_msg2, <<"cho">>))
    THEN IF ParenMatches(arvl_msg2) # {} THEN ParenGroup(arvl_msg2)
         ELSE IF Len(arvl_msg2) <= 4 /\ is_valid_station_text(arvl_msg2)
         THEN arvl_msg2
         ELSE <<>>
    ELSE <<>>

\* lines 220-230: the last filter of status and of time_display
final_filter(s, secs, tstr) ==
    IF HasInvalidWord(s) THEN (IF secs > 0 THEN tstr ELSE DOCHAK) ELSE s

\* lines 232-233
final_filter_location(loc) == IF HasInvalidWord(loc) THEN <<>> ELSE loc

\* lines 236-237
is_last_train(td) ==
    LET lstcar_at == Get(td, "lstcarAt", PyStr(<<"0">>))
    IN  lstcar_at = PyStr(<<"1">>) \/ lstcar_at = PyInt(1)

\* lines 138-253
parse_train_info(td) ==
    LET secs == barvl_seconds(td)
        tstr == compute_time_str(secs)
        arvl_msg2 == scrubbed_msg(td, "arvlMsg2")
        arvl_msg3 == scrubbed_msg(td, "arvlMsg3")
        arvl_cd == Get(td, "arvlCd", PyStr(<<>>))
        is_valid_msg2 == IF arvl_msg2 # <<>> THEN is_valid_station_text(arvl_msg2)
                         ELSE FALSE
        st == select_status_time(is_valid_msg2, arvl_msg2, secs, tstr, arvl_cd)
        loc == final_filter_location(
                   current_location(is_valid_msg2, arvl_msg2, arvl_msg3))
        subway_id_v == Get(td, "subwayId", PyStr(<<>>))
    IN  [direction |-> Get(td, "bstatnNm", PyStr(UNKNOWN)).s,
         status |-> final_filter(st[1], secs, tstr),
         time |-> final_filter(st[2], secs, tstr),
         current |-> IF loc # <<>> THEN loc ELSE UNKNOWN,
         subway_line |-> subway_id_v,
         subway_line_name |-> get_subway_line_name(subway_id_v),
         updn_line |-> Get(td, "updnLine", PyStr(<<>>)).s,
         is_last_train |-> is_last_train(td)]

----------------------------------------------------------------------------
(* fetch_subway_data *)

\* what fetch_subway_data returns: None or a list
DataUnset == [t |-> "unset", list |-> <<>>]
DataNone == [t |-> "none", list |-> <<>>]
DataList(l) == [t |-> "list", list |-> l]

\* an element the script puts on the page
Element(kind) == [kind |-> kind, text |-> "", keys |-> {}]
ApiError(msg) == [kind |-> "api_error", text |-> msg, keys |-> {}]
UnexpectedShape(keys) == [kind |-> "unexpected_shape", text |-> "", keys |-> keys]

\* the top-level keys of a response object
ResponseKeys(r) ==
    (IF r.error.present THEN {"errorMessage"} ELSE {})
    \cup (IF r.new.present THEN {"realtimeArrivalList"} ELSE {})
    \cup (IF r.legacy.present THEN {"realtimeStationArrival"} ELSE {})
    \cup (IF r.other THEN {"status"} ELSE {})

\* lines 89-109: the shape of the payload
payload(r) ==
    IF r.kind = "object" /\ r.new.present
    THEN [data |-> DataList(IF r.new.null THEN <<>> ELSE r.new.list),
          page |-> <<>>]
    ELSE IF r.kind = "object" /\ r.legacy.present
    THEN [data |-> DataList(IF r.legacy.null THEN <<>> ELSE r.legacy.list),
          page |-> <<>>]
    ELSE IF r.kind = "list"
    THEN [data |-> DataList(r.body), page |-> <<>>]
    ELSE [data |-> DataNone, page |-> <<UnexpectedShape(ResponseKeys(r))>>]

\* a fetcher that looks for the arrival list before the embedded error
fetch_subway_data_list_first(key, station_name, r) ==
    IF key = <<>>
    THEN [data |-> DataNone, page |-> <<Element("config_error")>>,
          requests |-> <<>>]
    ELSE
        LET out ==
            IF r.kind = "request_exception"
            THEN [data |-> DataNone, page |-> <<Element("transport_error")>>]
            ELSE IF r.kind = "exception"
            THEN [data |-> DataNone, page |-> <<Element("other_error")>>]
            ELSE IF payload(r).data.t = "list" THEN payload(r)
            ELSE IF r.kind = "object" /\ r.error.present
                    /\ (IF r.error.has_code THEN r.error.code ELSE "") # "INFO-000"
            THEN [data |-> DataNone,
                  page |-> <<ApiError(IF r.error.has_message
                                      THEN r.error.message
                                      ELSE "unknown error")>>]
            ELSE payload(r)
        IN  [data |-> out.data, page |-> out.page,
             requests |-> <<station_name>>]

\* a fetcher that asks a second time when the transport fails
fetch_subway_data_retry(key, station_name, r) ==
    IF key = <<>>
    THEN [data |-> DataNone, page |-> <<Element("config_error")>>,
          requests |-> <<>>]
    ELSE IF r.kind = "request_exception"
    THEN [data |-> DataNone, page |-> <<Element("transport_error")>>,
          requests |-> <<station_name, station_name>>]
    ELSE
        LET out ==
            IF r.kind = "exception"
            THEN [data |-> DataNone, page |-> <<Element("other_error")>>]
            ELSE IF r.kind = "object" /\ r.error.present
                    /\ (IF r.error.has_code THEN r.error.code ELSE "") # "INFO-000"
            THEN [data |-> DataNone,
                  page |-> <<ApiError(IF r.error.has_message
                                      THEN r.error.message
                                      ELSE "unknown error")>>]
            ELSE payload(r)
        IN  [data |-> out.data, page |-> out.page,
             requests |-> <<station_name>>]

\* lines 63-115
fetch_subway_data(key, station_name, r) ==
    IF key = <<>>
    THEN [data |-> DataNone, page |-> <<Element("config_error")>>,
          requests |-> <<>>]
    ELSE
        LET out ==
            IF r.kind = "request_exception"
            THEN [data |-> DataNone, page |-> <<Element("transport_error")>>]
            ELSE IF r.kind = "exception"
            THEN [data |-> DataNone, page |-> <<Element("other_error")>>]
            ELSE IF r.kind = "object" /\ r.error.present
                    /\ (IF r.error.has_code THEN r.error.code ELSE "") # "INFO-000"
            THEN [data |-> DataNone,
                  page |-> <<ApiError(IF r.error.has_message
                                      THEN r.error.message
                                      ELSE "unknown error")>>]
            ELSE payload(r)
        IN  [data |-> out.data, page |-> out.page,
             requests |-> <<station_name>>]

----------------------------------------------------------------------------
(* Raw arrival records *)

SANG == <<"sang">>
HA == <<"ha">>
SANGHAENG == <<"sang", "haeng">>
HAHAENG == <<"ha", "haeng">>
NAESEON == <<"nae", "seon">>
OESEON == <<"oe", "seon">>
JICHUK == <<"ji", "chuk">>
GANGNAM == <<"gang", "nam">>

RawKeys ==
    {"barvlDt", "arvlMsg2", "arvlMsg3", "arvlCd", "bstatnNm", "subwayId",
     "updnLine", "lstcarAt"}

\* a raw arrival record; a field that is not given is a missing key
Raw(fields) ==
    [k \in RawKeys |-> IF k \in DOMAIN fields THEN fields[k] ELSE Absent]

\* the example record of the specification's section 8
ExampleRaw ==
    Raw([barvlDt |-> PyStr(<<"1", "2", "5">>), arvlMsg2 |-> PyStr(<<>>),
         arvlMsg3 |-> PyStr(<<>>), arvlCd |-> PyStr(<<"9", "9">>),
         subwayId |-> PyStr(<<"1", "0", "0", "2">>),
         updnLine |-> PyStr(SANGHAENG), lstcarAt |-> PyStr(<<"0">>)])

\* the trains of the upstream responses of the script
AppTrains ==
    {ExampleRaw,
     Raw([barvlDt |-> PyStr(<<"0">>), arvlMsg2 |-> PyStr(JEONYEOK \o <<" ">> \o DOCHAK),
          arvlMsg3 |-> PyStr(GANGNAM), arvlCd |-> PyStr(<<"0">>),
          bstatnNm |-> PyStr(JICHUK), subwayId |-> PyStr(<<"1", "0", "0", "3">>),
          updnLine |-> PyStr(HAHAENG), lstcarAt |-> PyStr(<<"1">>)])}

\* the direction codes of the grouping
UpdnCodes ==
    {Absent, PyStr(<<>>), PyStr(SANGHAENG), PyStr(HAHAENG), PyStr(NAESEON),
     PyStr(OESEON), PyStr(SANG), PyStr(HA), PyStr(<<"sang", "ha", "haeng">>),
     PyStr(NAESEON \o <<" ">> \o OESEON), PyStr(<<"a">>)}

GroupTrains ==
    {Raw([barvlDt |-> PyStr(<<"6", "0">>), bstatnNm |-> PyStr(GANGNAM),
          updnLine |-> c]) : c \in UpdnCodes}

\* parse_train_info on the trains of the lists, tabulated
train_info_of == [t \in AppTrains \cup GroupTrains |-> parse_train_info(t)]

----------------------------------------------------------------------------
(* The render pass: lines 300-389 *)


\* line 348
IsUp(updn) ==
    Contains(updn, SANGHAENG) \/ Contains(updn, NAESEON) \/ Contains(updn, SANG)

\* line 350
IsDown(updn) ==
    Contains(updn, HAHAENG) \/ Contains(updn, OESEON) \/ Contains(updn, HA)

\* lines 348-354: the group of one train
group_of(train_info) ==
    IF IsUp(train_info.updn_line) THEN "up"
    ELSE IF IsDown(train_info.updn_line) THEN "down"
    ELSE "down"

IsUpbound(train_info) == group_of(train_info) = "up"
IsDownbound(train_info) == group_of(train_info) = "down"

\* lines 341-354: both lists, in the order of the loop
group_trains(list) ==
    LET infos == [i \in 1..Len(list) |-> train_info_of[list[i]]]
    IN  [up |-> SelectSeq(infos, IsUpbound),
         down |-> SelectSeq(infos, IsDownbound)]

\* lines 335-383: what follows the fetch.  `then` is the pc after the pass.
after_fetch(f, auto) ==
    IF f.data.t = "none"
    THEN [page |-> f.page \o <<Element("not_found")>>,
          up |-> <<>>, down |-> <<>>, checkbox |-> FALSE, then |-> "idle"]
    ELSE IF f.data.list = <<>>
    THEN [page |-> f.page \o <<Element("no_trains")>>,
          up |-> <<>>, down |-> <<>>, checkbox |-> FALSE, then |-> "idle"]
    ELSE [page |-> f.page \o <<Element("tabs"), Element("auto_refresh")>>,
          up |-> group_trains(f.data.list).up,
          down |-> group_trains(f.data.list).down,
          checkbox |-> TRUE,
          then |-> IF auto THEN "sleep" ELSE "idle"]

----------------------------------------------------------------------------
(* Inputs *)

TrainLists == StrUpTo(AppTrains, MaxTrains)

NoErrorPart ==
    [present |-> FALSE, has_code |-> FALSE, code |-> "",
     has_message |-> FALSE, message |-> ""]

ErrorPart(c, m) ==
    [present |-> TRUE, has_code |-> c # "", code |-> c,
     has_message |-> m # "", message |-> m]

\* errorMessage: missing, or an object with or without code and message
ErrorParts ==
    {NoErrorPart, ErrorPart("INFO-000", ""), ErrorPart("ERROR-300", "invalid key"),
     ErrorPart("ERROR-300", ""), ErrorPart("", "invalid key")}

NoList == [present |-> FALSE, null |-> FALSE, list |-> <<>>]
NullList == [present |-> TRUE, null |-> TRUE, list |-> <<>>]
TheList(l) == [present |-> TRUE, null |-> FALSE, list |-> l]

Object(e, new, legacy, other) ==
    [kind |-> "object", error |-> e, new |-> new, legacy |-> legacy,
     other |-> other, body |-> <<>>]

NoResponse ==
    [kind |-> "none", error |-> NoErrorPart, new |-> NoList, legacy |-> NoList,
     other |-> FALSE, body |-> <<>>]

Payloads ==
    {<<NoList, NoList, FALSE>>, <<NoList, NoList, TRUE>>,
     <<NullList, NoList, FALSE>>, <<TheList(<<>>), NoList, FALSE>>,
     <<TheList(<<ExampleRaw>>), NoList, FALSE>>,
     <<NoList, NullList, FALSE>>, <<NoList, TheList(<<>>), FALSE>>,
     <<NoList, TheList(<<ExampleRaw>>), TRUE>>,
     <<TheList(<<>>), TheList(<<ExampleRaw>>), FALSE>>}

\* what the upstream can answer to one request
Responses ==
    {Object(e, p[1], p[2], p[3]) : e \in ErrorParts, p \in Payloads}
    \cup {Object(e, TheList(l), NoList, FALSE) :
            e \in {ep \in ErrorParts : ep.code = "INFO-000" \/ ~ep.present},
            l \in TrainLists}
    \cup {[NoResponse EXCEPT !.kind = "list", !.body = l] : l \in TrainLists}
    \cup {[NoResponse EXCEPT !.kind = k] : k \in {"request_exception", "exception"}}

StationNames == {JICHUK, GANGNAM}
ApiKeys == {<<>>, <<"a">>}

----------------------------------------------------------------------------
(* The script: one action per script run and per user event *)

CallsIdle ==
    /\ subway_id = None /\ line_name = <<>>
    /\ text = <<>> /\ valid = FALSE
    /\ train_data = Raw(<<>>) /\ info = <<>> /\ time_str = <<>>

\* lines 57-61: a new session, its first script run pending
Init ==
    /\ pc = "run"
    /\ api_key \in ApiKeys
    /\ current_station = JICHUK
    /\ refresh_key = 0
    /\ station_input = JICHUK
    /\ clicked = FALSE
    /\ auto_refresh = FALSE
    /\ response = NoResponse
    /\ data = DataUnset
    /\ page = <<>>
    /\ upbound_trains = <<>>
    /\ downbound_trains = <<>>
    /\ requests = <<>>
    /\ CallsIdle

\* line 304-307
sidebar == IF api_key = <<>> THEN <<Element("api_key_warning")>> ELSE <<>>

\* lines 323-325: the run that sees the button pressed
RerunOnClick ==
    /\ pc = "run"
    /\ clicked
    /\ refresh_key' = refresh_key + 1
    /\ clicked' = FALSE
    /\ station_input' = current_station
    /\ requests' = <<>>
    /\ pc' = "run"
    /\ UNCHANGED <<api_key, current_station, auto_refresh, response, data, page,
                   upbound_trains, downbound_trains>>
    /\ UNCHANGED <<lineVars, textVars, parseVars>>

\* lines 328-383: a run with a station name.  The checkbox of line 380 has no
\* key: after a run that does not draw it, Streamlit may keep or drop its
\* value (keep).
RenderPass ==
    /\ pc = "run"
    /\ ~clicked
    /\ station_input # <<>>
    /\ \E r \in (IF api_key = <<>> THEN {NoResponse} ELSE Responses),
          keep \in (IF auto_refresh THEN BOOLEAN ELSE {TRUE}) :
        LET f == fetch_subway_data(api_key, station_input, r)
            a == after_fetch(f, auto_refresh)
        IN  /\ current_station' = station_input
            /\ response' = r
            /\ requests' = f.requests
            /\ data' = f.data
            /\ page' = sidebar \o a.page
            /\ upbound_trains' = a.up
            /\ downbound_trains' = a.down
            /\ auto_refresh' = IF a.checkbox \/ keep THEN auto_refresh ELSE FALSE
            /\ pc' = a.then
    /\ UNCHANGED <<api_key, refresh_key, station_input, clicked>>
    /\ UNCHANGED <<lineVars, textVars, parseVars>>

\* lines 384-385: a run with an empty input
RenderEmpty ==
    /\ pc = "run"
    /\ ~clicked
    /\ station_input = <<>>
    /\ \E keep \in (IF auto_refresh THEN BOOLEAN ELSE {TRUE}) :
        auto_refresh' = IF keep THEN auto_refresh ELSE FALSE
    /\ response' = NoResponse
    /\ requests' = <<>>
    /\ data' = DataUnset
    /\ page' = sidebar \o <<Element("enter_station")>>
    /\ upbound_trains' = <<>>
    /\ downbound_trains' = <<>>
    /\ pc' = "idle"
    /\ UNCHANGED <<api_key, current_station, refresh_key, station_input, clicked>>
    /\ UNCHANGED <<lineVars, textVars, parseVars>>

Interactive == pc \in {"idle", "sleep"}

\* line 313: the user submits another text
EnterStation ==
    /\ Interactive
    /\ \E s \in StationNames \cup {<<>>} :
        /\ s # station_input
        /\ station_input' = s
    /\ pc' = "run"
    /\ UNCHANGED <<api_key, current_station, refresh_key, clicked, auto_refresh,
                   response, data, page, upbound_trains, downbound_trains,
                   requests>>
    /\ UNCHANGED <<lineVars, textVars, parseVars>>

\* line 323: the user presses the button
ClickRefresh ==
    /\ Interactive
    /\ refresh_key < MaxRefresh
    /\ clicked' = TRUE
    /\ pc' = "run"
    /\ UNCHANGED <<api_key, current_station, refresh_key, station_input,
                   auto_refresh, response, data, page, upbound_trains,
                   downbound_trains, requests>>
    /\ UNCHANGED <<lineVars, textVars, parseVars>>

CheckboxShown == \E i \in 1..Len(page) : page[i].kind = "auto_refresh"

\* line 380: the user flips the checkbox, which is there after a pass with trains
ToggleAutoRefresh ==
    /\ Interactive
    /\ CheckboxShown
    /\ auto_refresh' = ~auto_refresh
    /\ pc' = "run"
    /\ UNCHANGED <<api_key, current_station, refresh_key, station_input, clicked,
                   response, data, page, upbound_trains, downbound_trains,
                   requests>>
    /\ UNCHANGED <<lineVars, textVars, parseVars>>

\* lines 382-383: the sleep of 30 seconds ends
TimerTick ==
    /\ pc = "sleep"
    /\ pc' = "run"
    /\ UNCHANGED <<api_key, current_station, refresh_key, station_input, clicked,
                   auto_refresh, response, data, page, upbound_trains,
                   downbound_trains, requests>>
    /\ UNCHANGED <<lineVars, textVars, parseVars>>

Next ==
    \/ RerunOnClick
    \/ RenderPass
    \/ RenderEmpty
    \/ EnterStation
    \/ ClickRefresh
    \/ ToggleAutoRefresh
    \/ TimerTick

Spec == Init /\ [][Next]_vars

----------------------------------------------------------------------------
(* The functions on their own: a call of each on every input of a bounded   *)
(* set                                                                      *)

AppIdle ==
    /\ api_key = <<"a">>
    /\ current_station = JICHUK
    /\ refresh_key = 0
    /\ station_input = JICHUK
    /\ clicked = FALSE
    /\ auto_refresh = FALSE
    /\ response = NoResponse
    /\ page = <<>>
    /\ upbound_trains = <<>>
    /\ downbound_trains = <<>>
    /\ requests = <<>>

\* get_subway_line_name

IdAlphabet == {"0", "1", "9"}

LineIds ==
    {None, PyInt(0), PyInt(1001), PyInt(9999), PyStr(<<"9", "9", "9", "9">>)}
    \cup {PyStr(k) : k \in MapKeys(subway_line_map)}
    \cup {PyStr(k) : k \in StrUpTo(IdAlphabet, MaxIdLen)}

InitLine ==
    /\ pc = "call"
    /\ subway_id \in LineIds
    /\ line_name = <<>>
    /\ text = <<>> /\ valid = FALSE
    /\ train_data = Raw(<<>>) /\ info = <<>> /\ time_str = <<>>
    /\ data = DataUnset
    /\ AppIdle

CallLine ==
    /\ pc = "call"
    /\ line_name' = get_subway_line_name(subway_id)
    /\ pc' = "return"
    /\ UNCHANGED <<subway_id, textVars, parseVars>>
    /\ UNCHANGED <<api_key, current_station, refresh_key, station_input, clicked,
                   auto_refresh, response, data, page, upbound_trains,
                   downbound_trains, requests>>

SpecLine == InitLine /\ [][CallLine]_vars

\* is_valid_station_text

TextAlphabet == {"su", "ip", "jeon", "hwan", "yeok", "bun", " "}

M_3BUN_HU == <<"3", "bun", " ", "hu">>
M_3BUN_HU_DOCHAK == <<"3", "bun", " ", "hu", " ", "do", "chak">>
M_JEONYEOK_DOCHAK == JEONYEOK \o <<" ">> \o DOCHAK
M_NTH_JEONYEOK ==
    <<"[", "2", "]", "beon", "jjae", " ", "jeon", "yeok", " ", "(", "gang",
      "nam", ")">>
M_SILLIM_JEOPSU ==
    <<"sin", "rim", "haeng", " ", "yeol", "cha", "ga", " ", "jeop", "su",
      "jung", "ip", "ni", "da">>
M_GANGNAMYEOK_JICHUK ==
    <<"gang", "nam", "yeok", " ", "(", "ji", "chuk", ")">>

\* messages of the feed, clean and noisy
Messages ==
    {M_3BUN_HU, M_3BUN_HU_DOCHAK, <<" ">> \o M_3BUN_HU \o <<" ">>,
     M_JEONYEOK_DOCHAK, JINIP, JEONYEOK \o <<" ">> \o JINIP, M_NTH_JEONYEOK,
     GANGNAM, <<" ">> \o GANGNAM \o <<" ">>, GANGNAM \o JICHUK,
     GANGNAM \o JICHUK \o <<"gang">>, M_SILLIM_JEOPSU, GEULROBEOL,
     GEULROBEOL \o <<" ">> \o SUIP, <<"yeok", " ">> \o JEONHWAN,
     DOCHAK \o <<" ", "(">> \o JEOPSU \o <<")">>, M_GANGNAMYEOK_JICHUK,
     <<"(">> \o GANGNAM \o <<")">>, JEONYEOK \o <<" ", "(">> \o GANGNAM,
     <<"3", "0", "cho", " ", "hu">>, <<"a">>, <<"1", "2">>}

Texts == StrUpTo(TextAlphabet, MaxTextLen) \cup Messages

InitText ==
    /\ pc = "call"
    /\ text \in Texts
    /\ valid = FALSE
    /\ subway_id = None /\ line_name = <<>>
    /\ train_data = Raw(<<>>) /\ info = <<>> /\ time_str = <<>>
    /\ data = DataUnset
    /\ AppIdle

CallText ==
    /\ pc = "call"
    /\ valid' = is_valid_station_text(text)
    /\ pc' = "return"
    /\ UNCHANGED <<text, lineVars, parseVars>>
    /\ UNCHANGED <<api_key, current_station, refresh_key, station_input, clicked,
                   auto_refresh, response, data, page, upbound_trains,
                   downbound_trains, requests>>

SpecText == InitText /\ [][CallText]_vars

\* parse_train_info

NonNumeric ==
    {Absent, None, PyStr(<<>>), PyStr(<<"a">>), PyStr(<<"1", "a">>),
     PyStr(<<"1", ".", "5">>), PyStr(<<"bun">>)}

Barvls ==
    NonNumeric
    \cup {PyStr(<<" ", "5", " ">>), PyStr(<<"+", "7">>), PyStr(<<"-", "5">>),
          PyStr(<<"0", "0", "7">>), PyInt(0 - 3)}
    \cup {PyInt(n) : n \in 0..MaxSeconds}
    \cup {PyStr(NatStr(n)) : n \in 0..MaxSeconds}

Codes == {Absent, PyStr(<<"0">>), PyStr(<<"1">>), PyStr(<<"9", "9">>), PyInt(1)}

RawRecords ==
    \* the arrival message
    {Raw([arvlMsg2 |-> PyStr(m), barvlDt |-> b, arvlCd |-> PyStr(<<"1">>)]) :
        m \in Texts, b \in {PyStr(<<"0">>), PyStr(<<"1", "2", "5">>)}}
    \cup {Raw([arvlMsg2 |-> PyStr(m), barvlDt |-> b, arvlCd |-> c]) :
            m \in Messages, b \in {PyStr(<<"0">>), PyStr(<<"6", "0">>)}, c \in Codes}
    \* the secondary message
    \cup {Raw([arvlMsg3 |-> PyStr(m3), arvlMsg2 |-> m2]) :
            m3 \in Texts,
            m2 \in {Absent, PyStr(M_NTH_JEONYEOK), PyStr(GANGNAM)}}
    \cup {Raw([arvlMsg3 |-> m3, arvlMsg2 |-> PyStr(m2)]) :
            m3 \in {Absent, PyStr(<<>>), PyStr(<<"a">>)}, m2 \in Messages}
    \* the seconds
    \cup {Raw([barvlDt |-> b, arvlMsg2 |-> m2, arvlCd |-> c]) :
            b \in Barvls,
            m2 \in {PyStr(<<>>), PyStr(M_JEONYEOK_DOCHAK)},
            c \in {PyStr(<<"1">>), PyStr(<<"9", "9">>)}}
    \* the other fields
    \cup {Raw([bstatnNm |-> d, subwayId |-> i, updnLine |-> u, lstcarAt |-> l,
               arvlMsg2 |-> PyStr(M_3BUN_HU)]) :
            d \in {Absent, PyStr(<<>>), PyStr(GANGNAM)},
            i \in {Absent, PyStr(<<>>), PyStr(<<"1", "0", "0", "2">>),
                   PyStr(<<"9", "9", "9", "9">>)},
            u \in {Absent, PyStr(SANGHAENG)},
            l \in {Absent, PyStr(<<"0">>), PyStr(<<"1">>), PyInt(1), PyInt(0)}}
    \cup {ExampleRaw}

InitParse ==
    /\ pc = "call"
    /\ train_data \in RawRecords
    /\ info = <<>>
    /\ time_str = <<>>
    /\ subway_id = None /\ line_name = <<>>
    /\ text = <<>> /\ valid = FALSE
    /\ data = DataUnset
    /\ AppIdle

CallParse ==
    /\ pc = "call"
    /\ info' = parse_train_info(train_data)
    /\ time_str' = compute_time_str(barvl_seconds(train_data))
    /\ pc' = "return"
    /\ UNCHANGED <<train_data, lineVars, textVars>>
    /\ UNCHANGED <<api_key, current_station, refresh_key, station_input, clicked,
                   auto_refresh, response, data, page, upbound_trains,
                   downbound_trains, requests>>

SpecParse == InitParse /\ [][CallParse]_vars

\* the grouping of lines 340-354

GroupLists == StrUpTo(GroupTrains, MaxTrains) \ {<<>>}

InitGroup ==
    /\ pc = "call"
    /\ \E l \in GroupLists : data = DataList(l)
    /\ CallsIdle
    /\ AppIdle

CallGroup ==
    /\ pc = "call"
    /\ upbound_trains' = group_trains(data.list).up
    /\ downbound_trains' = group_trains(data.list).down
    /\ pc' = "return"
    /\ UNCHANGED <<api_key, current_station, refresh_key, station_input, clicked,
                   auto_refresh, response, data, page, requests>>
    /\ UNCHANGED <<lineVars, textVars, parseVars>>

SpecGroup == InitGroup /\ [][CallGroup]_vars

----------------------------------------------------------------------------
(* Properties *)

\* the denylisted tokens as the specification names them
Denylist == {JEOPSU, GEULROBEOL, SUIP, JEONHWAN}
Denied(s) == \E w \in Denylist : Contains(s, w)

OnPage(kind) == \E i \in 1..Len(page) : page[i].kind = kind

MsgOf(v) == IF v.t = "str" THEN v.s ELSE <<>>

\* C1: every record returned by parse_train_info has a non-empty direction,
\* status, time and current, also when bstatnNm, arvlMsg2 or arvlMsg3 is
\* present and empty or absent.
C1_NoEmptyField ==
    pc = "return" =>
        /\ info.direction # <<>>
        /\ info.status # <<>>
        /\ info.time # <<>>
        /\ info.current # <<>>

\* C2: an answer whose errorMessage.code is INFO-000 and that has neither
\* arrival key is a success with an empty list, and the pass shows the
\* "no trains" message and neither an error nor the unexpected-shape warning.
InfoWithoutList ==
    /\ requests # <<>>
    /\ response.kind = "object"
    /\ response.error.present
    /\ response.error.code = "INFO-000"
    /\ ~response.new.present
    /\ ~response.legacy.present

C2_InfoWithoutListIsEmpty ==
    InfoWithoutList =>
        /\ data = DataList(<<>>)
        /\ OnPage("no_trains")
        /\ ~OnPage("not_found")
        /\ ~OnPage("unexpected_shape")

\* C3: an answer with an errorMessage object whose code is not INFO-000, a
\* missing code included, ends in the API error with the upstream message and
\* gives no arrival list, whether or not an arrival key is there too.
EmbeddedError ==
    /\ requests # <<>>
    /\ response.kind = "object"
    /\ response.error.present
    /\ (~response.error.has_code \/ response.error.code # "INFO-000")

C3_EmbeddedErrorWins ==
    EmbeddedError =>
        /\ data = DataNone
        /\ upbound_trains = <<>> /\ downbound_trains = <<>>
        /\ ~OnPage("tabs") /\ ~OnPage("no_trains")
        /\ \E i \in 1..Len(page) :
            /\ page[i].kind = "api_error"
            /\ response.error.has_message => page[i].text = response.error.message

C3_Witness ==
    /\ EmbeddedError
    /\ response.error.code = "ERROR-300"
    /\ response.error.message = "invalid key"
    /\ response.new.present /\ response.new.list # <<>>
    /\ data = DataNone
    /\ pc = "idle"

\* C4: status, time and current never hold a denylisted token; and when
\* arvlMsg2 holds one, status and time are the computed time string if the
\* seconds are positive, and otherwise the text of the status code ("jin ip
\* jung" for "1", "do chak" for the rest).
C4_NoDeniedToken ==
    pc = "return" =>
        /\ ~Denied(info.status)
        /\ ~Denied(info.time)
        /\ ~Denied(info.current)
        /\ Denied(MsgOf(train_data["arvlMsg2"])) =>
            IF barvl_seconds(train_data) > 0
            THEN info.status = time_str /\ info.time = time_str
            ELSE LET code_text == IF train_data["arvlCd"] = PyStr(<<"1">>)
                                  THEN JINIPJUNG ELSE DOCHAK
                 IN  info.status = code_text /\ info.time = code_text

C4_Witness ==
    /\ pc = "return"
    /\ train_data["arvlMsg2"] = PyStr(M_SILLIM_JEOPSU)
    /\ train_data["arvlCd"] = PyStr(<<"1">>)
    /\ info.status = <<"2", "bun", " ", "5", "cho", " ", "hu">>
    /\ info.time = info.status

\* C5: is_valid_station_text is false for the empty string and for every
\* string with a denylisted token, also when the string has an allowlisted
\* token or the shape of a station name.
C5_DenylistFirst ==
    pc = "return" => ((text = <<>> \/ Denied(text)) => valid = FALSE)

C5_Witness ==
    /\ pc = "return"
    /\ text = <<"yeok", " ">> \o JEONHWAN
    /\ valid = FALSE

\* C6: with s the seconds parsed from barvlDt (0 when it is not a number or
\* absent): s >= 60 and s % 60 = 0 gives "{s/60} bun hu"; 0 < s < 60 gives
\* "{s} cho hu"; both parts non-zero gives "{M} bun {S} cho hu"; s = 0 gives
\* "do chak"; and no s gives "got do chak".
C6_TimeString ==
    pc = "return" =>
        LET b == train_data["barvlDt"]
            s == barvl_seconds(train_data)
        IN  /\ b \in NonNumeric => s = 0
            /\ \A n \in 0..MaxSeconds :
                (b = PyInt(n) \/ b = PyStr(NatStr(n))) => s = n
            /\ (s >= 60 /\ s % 60 = 0) =>
                time_str = NatStr(s \div 60) \o <<"bun", " ", "hu">>
            /\ (0 < s /\ s < 60) =>
                time_str = NatStr(s) \o <<"cho", " ", "hu">>
            /\ (s >= 60 /\ s % 60 # 0) =>
                time_str = NatStr(s \div 60) \o <<"bun", " ">>
                           \o NatStr(s % 60) \o <<"cho", " ", "hu">>
            /\ s = 0 => time_str = DOCHAK
            /\ time_str # GOT_DOCHAK

C6_Witness ==
    /\ pc = "return"
    /\ train_data["barvlDt"] = PyStr(<<"1", "2", "0">>)
    /\ time_str = <<"2", "bun", " ", "hu">>

\* C7: get_subway_line_name gives the table's name for an id of the table
\* ("1001" gives "1 ho seon"), "{id} ho seon" for a non-empty id that is not
\* in the table ("9999" gives "9999 ho seon"), "al su eops eum" for an empty
\* or absent id, and never the empty string.
C7_LineName ==
    pc = "return" =>
        /\ line_name # <<>>
        /\ subway_id = PyStr(<<"1", "0", "0", "1">>) =>
            line_name = <<"1", "ho", "seon">>
        /\ \A e \in subway_line_map :
            subway_id = PyStr(e[1]) => line_name = e[2]
        /\ (subway_id.t = "str" /\ subway_id.s # <<>>
            /\ subway_id.s \notin MapKeys(subway_line_map)) =>
            line_name = subway_id.s \o <<"ho", "seon">>
        /\ (subway_id = PyStr(<<>>) \/ subway_id = None) =>
            line_name = <<"al", " ", "su", " ", "eops", "eum">>

C7_Witness ==
    /\ pc = "return"
    /\ subway_id = PyStr(<<"9", "9", "9", "9">>)
    /\ line_name = <<"9", "9", "9", "9", "ho", "seon">>

\* C8: status and time come from the first rule that matches, with m the
\* stripped arvlMsg2: (a) m plausible with a time unit: both are m; (b) m
\* plausible with "do chak" or "jin ip", or (c) with "jeon yeok": status is m
\* and time is the computed time string if the seconds are positive, else
\* "do chak"; (d) else, seconds positive: both are the computed time string;
\* (e) else both are "jin ip jung" for arvlCd "1" and "do chak" for any other
\* arvlCd.  The record with barvlDt "125", empty messages and arvlCd "99" has
\* the time "2 bun 5 cho hu".
C8_FirstMatchingRule ==
    pc = "return" =>
        LET m == Strip(MsgOf(train_data["arvlMsg2"]))
            plausible == is_valid_station_text(m)
            s == barvl_seconds(train_data)
            fallback == IF s > 0 THEN time_str ELSE DOCHAK
        IN  /\ IF plausible /\ HasTimeUnit(m)
               THEN info.status = m /\ info.time = m
               ELSE IF plausible /\ (Contains(m, DOCHAK) \/ Contains(m, JINIP))
               THEN info.status = m /\ info.time = fallback
               ELSE IF plausible /\ Contains(m, JEONYEOK)
               THEN info.status = m /\ info.time = fallback
               ELSE IF s > 0
               THEN info.status = time_str /\ info.time = time_str
               ELSE IF train_data["arvlCd"] = PyStr(<<"1">>)
               THEN info.status = JINIPJUNG /\ info.time = JINIPJUNG
               ELSE info.status = DOCHAK /\ info.time = DOCHAK
            /\ train_data = ExampleRaw =>
                info.time = <<"2", "bun", " ", "5", "cho", " ", "hu">>

C8_Witness ==
    /\ pc = "return"
    /\ train_data["arvlMsg2"] = PyStr(M_3BUN_HU_DOCHAK)
    /\ train_data["barvlDt"] = PyStr(<<"6", "0">>)
    /\ info.status = M_3BUN_HU_DOCHAK
    /\ info.time = M_3BUN_HU_DOCHAK

\* C9: every arrival of a non-empty list is in exactly one group: "up" when
\* its updnLine has an up or inner-loop token, "down" when it has a down or
\* outer-loop token, and "down" when it has both or neither.
ClaimedUp(train_info) ==
    IsUp(train_info.updn_line) /\ ~IsDown(train_info.updn_line)
ClaimedDown(train_info) == ~ClaimedUp(train_info)

C9_AmbiguousGoesDown ==
    pc = "return" =>
        LET infos == [i \in 1..Len(data.list) |-> train_info_of[data.list[i]]]
        IN  /\ Len(upbound_trains) + Len(downbound_trains) = Len(data.list)
            /\ upbound_trains = SelectSeq(infos, ClaimedUp)
            /\ downbound_trains = SelectSeq(infos, ClaimedDown)

\* C10: a render pass issues at most one fetch; a pass whose fetch ends in a
\* transport, API or unexpected-shape error schedules nothing, so that the
\* next step is a user action, which issues no fetch itself; after such an
\* error the input and the button are still there; and the pass that follows
\* a new station name fetches that name, while the pass that follows the
\* button is rerun with the current station, which it then fetches.
FetchFailed == requests # <<>> /\ data = DataNone

C10_Step ==
    /\ Len(requests') <= 1
    /\ FetchFailed' => pc' \in {"idle", "run"}
    /\ (pc = "run" /\ ~clicked /\ FetchFailed') => pc' = "idle"
    /\ (pc = "idle" /\ FetchFailed) =>
        /\ ENABLED EnterStation
        /\ refresh_key < MaxRefresh => ENABLED ClickRefresh
        /\ pc' = "run"
        /\ station_input' # station_input \/ clicked'
        /\ UNCHANGED <<requests, response, data, page>>
    /\ (pc = "run" /\ clicked) =>
        /\ pc' = "run" /\ ~clicked'
        /\ station_input' = current_station /\ current_station # <<>>
        /\ requests' = <<>>
    /\ (pc = "run" /\ ~clicked /\ station_input # <<>> /\ api_key # <<>>) =>
        requests' = <<station_input>>

C10_OneFetchPerAction == [][C10_Step]_vars

C10_Witness ==
    /\ pc = "run"
    /\ clicked
    /\ FetchFailed
    /\ OnPage("transport_error")

====
